---- MODULE Spec2Model ----
(***************************************************************************)
(* A model of the generic object-binding and task-polling core of          *)
(* adcm_client (src/src/adcm_client/base.py, util/search.py, objects.py):  *)
(* BaseAPIObject.wait_for_attr, Paging, EndPoint.list / search_one, the    *)
(* BaseAPIObject life cycle (construction, reread, update, delete),        *)
(* BaseAPIListObject, EndPoint against the gateway schema,                 *)
(* min_server_version, Task.wait / Task.try_wait / Job.wait with the dump  *)
(* of the jobs' log files, _parent_obj and util.search.                    *)
(***************************************************************************)
EXTENDS Integers, Sequences, FiniteSets, TLC

(***************************************************************************)
(* Python numbers.  wait_for_attr accumulates `i = i + interval` and tests *)
(* `i < timeout`; interval defaults to the float 0.2.  A number is         *)
(* m * 2^e with m a bit sequence (most significant bit first, no leading   *)
(* or trailing zero, <<>> for 0); `float` tells a Python float (binary64)  *)
(* from a Python int (exact).                                              *)
(***************************************************************************)
MantissaBits == 53

Zeros(n) == IF n <= 0 THEN <<>> ELSE [k \in 1..n |-> 0]

\* s without its leading zeros
StripLeading(s) ==
    IF \A k \in 1..Len(s) : s[k] = 0 THEN <<>>
    ELSE LET first == CHOOSE k \in 1..Len(s) : s[k] = 1 /\ \A j \in 1..(k - 1) : s[j] = 0
         IN  SubSeq(s, first, Len(s))

\* the number of zeros that end s (s holds a 1)
TrailingZeros(s) ==
    LET last == CHOOSE k \in 1..Len(s) : s[k] = 1 /\ \A j \in (k + 1)..Len(s) : s[j] = 0
    IN  Len(s) - last

\* the carry into position k (0 for the carry out) of a + b, two bit
\* sequences of the same length: some lower position generates a carry and
\* every position between propagates it
CarryInto(a, b, k) ==
    IF \E p \in (k + 1)..Len(a) :
          /\ a[p] + b[p] = 2
          /\ \A q \in (k + 1)..(p - 1) : a[q] + b[q] = 1
    THEN 1 ELSE 0

\* a + b for two bit sequences of the same length, one bit longer
AddAligned(a, b) ==
    LET sum == [k \in 1..(Len(a) + 1) |->
                   IF k = 1 THEN CarryInto(a, b, 0)
                   ELSE (a[k - 1] + b[k - 1] + CarryInto(a, b, k - 1)) % 2]
    IN  SubSeq(sum, 1, Len(a) + 1)

Max(a, b) == IF a >= b THEN a ELSE b
Min(a, b) == IF a <= b THEN a ELSE b

\* the bits of x at exponent e (e <= x.e), left-padded to length n
AlignTo(x, e, n) ==
    LET bits == x.m \o Zeros(IF x.m = <<>> THEN 0 ELSE x.e - e)
    IN  Zeros(n - Len(bits)) \o bits

CommonExp(x, y) ==
    IF x.m = <<>> THEN y.e ELSE IF y.m = <<>> THEN x.e ELSE Min(x.e, y.e)

CommonLen(x, y) ==
    LET e == CommonExp(x, y)
    IN  Max(Len(AlignTo(x, e, 0)), Len(AlignTo(y, e, 0)))

\* canonical form: no leading zero, no trailing zero
Canon(m, e, f) ==
    LET s == StripLeading(m)
        t == TrailingZeros(s)
    IN  IF s = <<>> THEN [m |-> <<>>, e |-> 0, float |-> f]
        ELSE [m |-> SubSeq(s, 1, Len(s) - t), e |-> e + t, float |-> f]

\* the exact sum of two numbers
ExactAdd(x, y) ==
    LET e == CommonExp(x, y)
        n == CommonLen(x, y)
    IN  Canon(AddAligned(AlignTo(x, e, n), AlignTo(y, e, n)), e, x.float \/ y.float)

\* a < b for two bit sequences of the same length
LexLess(a, b) ==
    \E k \in 1..Len(a) : a[k] < b[k] /\ \A j \in 1..(k - 1) : a[j] = b[j]

\* x < y, exactly (Python compares int and float by value)
Less(x, y) ==
    LET e == CommonExp(x, y)
        n == CommonLen(x, y)
    IN  LexLess(AlignTo(x, e, n), AlignTo(y, e, n))

\* round to nearest, ties to even, to MantissaBits significant bits
RoundFloat(x) ==
    IF Len(x.m) <= MantissaBits THEN x
    ELSE LET keep   == SubSeq(x.m, 1, MantissaBits)
             rest   == SubSeq(x.m, MantissaBits + 1, Len(x.m))
             sticky == \E k \in 2..Len(rest) : rest[k] = 1
             up     == rest[1] = 1 /\ (sticky \/ keep[MantissaBits] = 1)
             one    == Zeros(MantissaBits - 1) \o <<1>>
         IN  Canon(IF up THEN AddAligned(keep, one) ELSE keep,
                   x.e + Len(rest), x.float)

\* Python's x + y: exact on ints, rounded once either operand is a float
PyAdd(x, y) ==
    IF x.float \/ y.float THEN RoundFloat(ExactAdd(x, y)) ELSE ExactAdd(x, y)

\* n * x, exactly
RECURSIVE Times(_, _)
Times(n, x) ==
    IF n = 0 THEN Canon(<<>>, 0, FALSE) ELSE ExactAdd(Times(n - 1, x), x)

RECURSIVE NatBits(_)
NatBits(n) == IF n = 0 THEN <<>> ELSE Append(NatBits(n \div 2), n % 2)

\* a Python int literal
PyInt(n) == Canon(NatBits(n), 0, FALSE)

RECURSIVE HexBits(_)
HexBits(h) ==
    IF h = <<>> THEN <<>>
    ELSE LET d == h[Len(h)]
         IN  HexBits(SubSeq(h, 1, Len(h) - 1))
               \o <<(d \div 8) % 2, (d \div 4) % 2, (d \div 2) % 2, d % 2>>

\* a Python float literal whose float.hex() is 0x1.<h>p<p>: h is the
\* sequence of its 13 hexadecimal fraction digits
PyFloat(h, p) == Canon(<<1>> \o HexBits(h), p - 4 * Len(h), TRUE)

(***************************************************************************)
(* BaseAPIObject.wait_for_attr on a Task/Job-like instance.  The instance  *)
(* holds two polled attributes, `status` and `state`; every reread()       *)
(* overwrites them with the record the gateway serves at that moment.      *)
(***************************************************************************)
MaxPolls == 12       \* loop iterations followed in one call
MaxScript == 3       \* rereads after which the remote record stays as it is

StatusValues == {"created", "running", "success", "failed"}
StateValues == {"created", "active"}
END_STATUSES == {"failed", "success"}

\* the records the gateway serves for the polled object
TaskRecords == [status : StatusValues, state : StateValues]

\* the (attrname, values) pairs wait_for_attr is called with
WaitTargets ==
    { [attrname |-> "status", values |-> END_STATUSES],
      [attrname |-> "state",  values |-> {"active"}] }

DefaultTimeout == PyInt(86400)
DefaultInterval == PyFloat(<<9, 9, 9, 9, 9, 9, 9, 9, 9, 9, 9, 9, 10>>, -3)   \* 0.2

Float_0_01 == PyFloat(<<4, 7, 10, 14, 1, 4, 7, 10, 14, 1, 4, 7, 11>>, -7)   \* 0.01
Float_0_02 == PyFloat(<<4, 7, 10, 14, 1, 4, 7, 10, 14, 1, 4, 7, 11>>, -6)   \* 0.02
Float_0_05 == PyFloat(<<9, 9, 9, 9, 9, 9, 9, 9, 9, 9, 9, 9, 10>>, -5)       \* 0.05

\* an optional argument: <<>> is None, <<x>> is x
None == <<>>
Some(x) == <<x>>

\* the (timeout, interval) arguments of the calls that are followed
WaitTimings ==
    { [timeout |-> None,             interval |-> None],
      [timeout |-> Some(PyInt(10)),  interval |-> Some(Float_0_01)],
      [timeout |-> Some(Float_0_05), interval |-> Some(Float_0_02)],
      [timeout |-> Some(PyInt(1)),   interval |-> None],
      [timeout |-> Some(PyInt(2)),   interval |-> None],
      [timeout |-> Some(PyInt(0)),   interval |-> Some(PyInt(1))],
      [timeout |-> Some(PyInt(2)),   interval |-> Some(PyInt(1))],
      [timeout |-> Some(PyInt(3)),   interval |-> Some(PyInt(2))] }

VARIABLES
    wpc,        \* position in wait_for_attr: "idle", "loop", "returned", "raised"
    attrname,   \* the polled attribute
    values,     \* the terminal values
    timeout,    \* the polling budget (after the default is applied)
    interval,   \* the sleep between polls (after the default is applied)
    i,          \* the accumulated budget
    fields,     \* the instance's attributes: [status, state]
    observed,   \* the records the first MaxScript rereads fetched
    rereads,    \* reread() calls made by the call
    sleeps,     \* sleep(interval) calls made by the call
    result      \* the returned value, or the exception raised, "" before

waitVars == <<wpc, attrname, values, timeout, interval, i, fields, observed,
              rereads, sleeps, result>>

VARIABLES
    remote,     \* the gateway's collection: the records in server order
    envelope,   \* the gateway answers a paged list call with an OrderedDict
    honours,    \* the gateway applies the filters a list call passes
    calls       \* the gateway calls the latest operation made, in order

gatewayVars == <<remote, envelope, honours, calls>>

VARIABLES
    pager,      \* the Paging instance
    yielded,    \* the elements the current pass has returned, in order
    pgpc,       \* "new", "iterating", or "stopped" after StopIteration
    passes      \* __iter__ calls made on the instance

pagingVars == <<pager, yielded, pgpc, passes>>

VARIABLES
    cls,        \* the entity class of the instance
    criteria,   \* the **args of the constructor
    constructed,\* __init__ has returned
    data,       \* the instance's _data
    attrs,      \* the instance's declared attributes
    op,         \* the latest operation on the instance
    raised,     \* the exception the latest operation raised, "" if none
    ops         \* reread() and update() calls made

entityVars == <<cls, criteria, constructed, data, attrs, op, raised, ops>>

VARIABLES
    entries,    \* the data of the collection: the _data of its entries, in order
    built,      \* BaseAPIListObject.__init__ has been called
    listArgs,   \* the paging and **args of the latest collection constructor
    lraised,    \* the exception that constructor raised, "" if none
    builtFrom,  \* the gateway's collection when that constructor ran
    changes,    \* creations and deletions other clients have made
    gone        \* the ids that delete() calls have removed from the gateway

collectionVars == <<entries, built, listArgs, lraised, builtFrom, changes, gone>>

VARIABLES
    point,      \* the gateway's schema, and where in it the EndPoint's point is
    epc,        \* the latest EndPoint operation and the path it was given
    epraised,   \* the exception that operation raised, "" if none
    descriptor, \* the EndPoint's idname, path_args and awailable_filters
    request,    \* the paging and **args of the latest EndPoint.list
    keywords    \* the keyword arguments point.list was called with, if any

endpointVars == <<point, epc, epraised, descriptor, request, keywords>>

VARIABLES
    version,    \* the connected server's adcm_version
    jobs,       \* the jobs the task's job_list holds
    tpc,        \* position of the Task method: "idle", "waiting", "done"
    tmethod,    \* the Task method called
    tresult,    \* what it returned, or the exception it raised
    tcalls,     \* runs of the body of the wrapped operation, each of which
                \* issues the operation's gateway calls
    log_failed, \* the log_failed argument of Task.wait
    dump        \* the log files of the jobs _log_jobs listed, and those it
                \* fetched, in order

taskVars == <<version, jobs, tpc, tmethod, tresult, tcalls, log_failed, dump>>

VARIABLES
    haystack,   \* the data argument of a call of util.search
    needle,     \* its keyword arguments
    hits,       \* the elements its generator gives, in order
    spc         \* "idle" before the call, "done" after it

searchVars == <<haystack, needle, hits, spc>>

vars == <<waitVars, gatewayVars, pagingVars, entityVars, collectionVars,
          endpointVars, taskVars, searchVars>>

\* no call of util.search is followed
NoSearch ==
    /\ haystack = <<>>
    /\ needle = <<>>
    /\ hits = <<>>
    /\ spc = "idle"

\* no collection has been built
NoCollection ==
    /\ entries = <<>>
    /\ built = FALSE
    /\ listArgs = <<>>
    /\ lraised = ""
    /\ builtFrom = <<>>
    /\ changes = 0
    /\ gone = {}

\* no EndPoint is under test
NoEndpoint ==
    /\ point = [schema |-> {}, at |-> <<>>]
    /\ epc = [op |-> "", path |-> <<>>]
    /\ epraised = ""
    /\ descriptor = [idname |-> "", path_args |-> <<>>, filters |-> {}]
    /\ request = [paging |-> <<>>, args |-> <<>>]
    /\ keywords = <<>>

\* no Task method is in progress
NoTask ==
    /\ version = <<>>
    /\ jobs = 0
    /\ tpc = "idle"
    /\ tmethod = ""
    /\ tresult = ""
    /\ tcalls = 0
    /\ log_failed = TRUE
    /\ dump = [files |-> <<>>, fetched |-> <<>>]

\* the default page size of Paging
DefaultLimit == 50

\* no Paging instance is in use
NoPaging ==
    /\ pager = [limit |-> DefaultLimit, query_params |-> <<>>, offset |-> 0,
                current_list |-> <<>>, pos |-> 0, started |-> FALSE]
    /\ yielded = <<>>
    /\ pgpc = "new"
    /\ passes = 0

\* no entity instance is in use
NoEntity ==
    /\ cls = "Task"
    /\ criteria = <<>>
    /\ constructed = FALSE
    /\ data = <<>>
    /\ attrs = <<>>
    /\ op = ""
    /\ raised = ""
    /\ ops = 0

\* the gateway is reached through reread() only, see Served
NoGateway ==
    /\ remote = <<>>
    /\ envelope = TRUE
    /\ honours = TRUE
    /\ calls = <<>>

\* no wait_for_attr call is in progress
NoWait ==
    /\ wpc = "idle"
    /\ attrname = "status"
    /\ values = {}
    /\ timeout = <<>>
    /\ interval = <<>>
    /\ i = <<>>
    /\ fields = <<>>
    /\ observed = <<>>
    /\ rereads = 0
    /\ sleeps = 0
    /\ result = ""

\* the record read(self.id) returns at the next reread
Served(rec) ==
    IF rereads < MaxScript THEN rec \in TaskRecords ELSE rec = observed[MaxScript]

\* LoopCondition without the test of the polled attribute
LoopCondition_NoTerminalTest == Less(i, timeout)

\* LoopCondition with `i <= timeout` for `i < timeout`
LoopCondition_InclusiveBudget == fields[attrname] \notin values /\ ~Less(timeout, i)

\* the condition of the while loop, base.py:404
LoopCondition == fields[attrname] \notin values /\ Less(i, timeout)

\* an exit test that lets every value through
ExitTest_Always == TRUE

\* an exit test that gives up once the budget is used
ExitTest_BudgetFirst == fields.status \in values /\ Less(i, timeout)

\* the test after the loop, base.py:408
ExitTest == fields.status \in values

InitWait ==
    /\ NoSearch
    /\ wpc = "idle"
    /\ attrname = "status"
    /\ values = {}
    /\ timeout = PyInt(0)
    /\ interval = PyInt(0)
    /\ i = PyInt(0)
    /\ fields \in TaskRecords
    /\ observed = <<>>
    /\ rereads = 0
    /\ sleeps = 0
    /\ result = ""
    /\ NoGateway
    /\ NoPaging
    /\ NoEntity
    /\ NoCollection
    /\ NoEndpoint
    /\ NoTask

\* wait_for_attr(attrname, values, timeout, interval) up to the loop
EnterLoop(target, timing) ==
    /\ wpc = "idle"
    /\ wpc' = "loop"
    /\ attrname' = target.attrname
    /\ values' = target.values
    /\ timeout' = IF timing.timeout = None THEN DefaultTimeout ELSE timing.timeout[1]
    /\ interval' = IF timing.interval = None THEN DefaultInterval ELSE timing.interval[1]
    /\ i' = PyInt(0)
    /\ UNCHANGED <<fields, observed, rereads, sleeps, result>>
    /\ UNCHANGED <<gatewayVars, pagingVars, entityVars, collectionVars, endpointVars, searchVars>>

\* BaseAPIObject.wait_for_attr called on its own
WaitForAttr(target, timing) ==
    /\ EnterLoop(target, timing)
    /\ UNCHANGED taskVars

\* one pass of the loop body: sleep, accumulate, reread
Poll ==
    /\ wpc = "loop"
    /\ sleeps < MaxPolls
    /\ LoopCondition
    /\ \E rec \in TaskRecords :
          /\ Served(rec)
          /\ fields' = rec
          /\ observed' = IF rereads < MaxScript THEN Append(observed, rec) ELSE observed
    /\ sleeps' = sleeps + 1
    /\ i' = PyAdd(i, interval)
    /\ rereads' = rereads + 1
    /\ UNCHANGED <<wpc, attrname, values, timeout, interval, result>>
    /\ UNCHANGED <<gatewayVars, pagingVars, entityVars, collectionVars, endpointVars, searchVars>>
    /\ UNCHANGED taskVars

\* the loop is left: return the status or raise WaitTimeout
LeaveLoop ==
    /\ wpc = "loop"
    /\ ~LoopCondition
    /\ IF ExitTest
       THEN wpc' = "returned" /\ result' = fields.status
       ELSE wpc' = "raised" /\ result' = "WaitTimeout"
    /\ UNCHANGED <<attrname, values, timeout, interval, i, fields, observed,
                   rereads, sleeps>>
    /\ UNCHANGED <<gatewayVars, pagingVars, entityVars, collectionVars, endpointVars, searchVars>>
    /\ UNCHANGED taskVars

NextWait ==
    \/ \E target \in WaitTargets, timing \in WaitTimings : WaitForAttr(target, timing)
    \/ Poll
    \/ LeaveLoop

SpecWait == InitWait /\ [][NextWait]_vars

WaitDone == wpc \in {"returned", "raised"}

\* n <= ceil(t / v), exactly: (n - 1) * v < t
AtMostCeil(n, t, v) == n = 0 \/ Less(Times(n - 1, v), t)

\* the polled attribute has not been terminal at any observation so far
NeverTerminal ==
    /\ fields[attrname] \notin values
    /\ \A k \in 1..Len(observed) : observed[k][attrname] \notin values

(***************************************************************************)
(* C1: wait_for_attr("status", {"success","failed"}, timeout=10,           *)
(* interval=0.01) on an entity whose rereads fetch the statuses created,   *)
(* running, success in that order returns "success" after exactly 3        *)
(* rereads: it does not raise, and once the third reread is done the loop  *)
(* is over and can only return.                                            *)
(***************************************************************************)
C1_Call ==
    /\ wpc # "idle"
    /\ attrname = "status"
    /\ values = {"success", "failed"}
    /\ timeout = PyInt(10)
    /\ interval = Float_0_01

C1_Sequence ==
    /\ Len(observed) >= 3
    /\ observed[1].status = "created"
    /\ observed[2].status = "running"
    /\ observed[3].status = "success"

C1_WaitTerminality ==
    (C1_Call /\ C1_Sequence) =>
        /\ rereads = 3
        /\ wpc # "raised"
        /\ wpc = "loop" => (~LoopCondition /\ ExitTest)
        /\ wpc = "returned" => result = "success"

C1_Witness ==
    C1_Call /\ C1_Sequence /\ wpc = "returned" /\ result = "success" /\ rereads = 3

C2_ExactTiming == wpc # "idle" /\ ~timeout.float /\ ~interval.float

C3_ExitChecksPolledAttribute ==
    (WaitDone /\ fields[attrname] \in values) =>
        (wpc = "returned" /\ result = fields[attrname])

\* the budget is used up: the loop's test `i < timeout` fails
BudgetUsed == ~Less(i, timeout)

(***************************************************************************)
(* C29: when the loop ends because the budget is used up, the status the   *)
(* last reread fetched decides: a terminal status is returned, and         *)
(* WaitTimeout is raised only when the status is not terminal then.        *)
(***************************************************************************)
C29_LastRereadCounts ==
    (WaitDone /\ BudgetUsed /\ rereads >= 1) =>
        /\ fields.status \in values => (wpc = "returned" /\ result = fields.status)
        /\ wpc = "raised" => (result = "WaitTimeout" /\ fields.status \notin values)

C29_Witness ==
    /\ wpc = "returned"
    /\ BudgetUsed
    /\ attrname = "status"
    /\ timeout = PyInt(2)
    /\ interval = PyInt(1)
    /\ sleeps = 2
    /\ rereads = 2
    /\ observed[1].status = "running"
    /\ observed[2].status = "success"
    /\ result = "success"

(***************************************************************************)
(* C30: whatever the polled attribute, the timeout and the interval, a     *)
(* value wait_for_attr returns is one of the terminal values it was given. *)
(***************************************************************************)
C30_ReturnsTerminalOnly ==
    wpc = "returned" => (result \in values /\ result = fields.status)

C30_Witness ==
    /\ wpc = "returned"
    /\ result = "failed"
    /\ values = END_STATUSES
    /\ timeout = Float_0_05
    /\ interval = Float_0_02
    /\ rereads = 2
    /\ observed[1].status = "running"

(***************************************************************************)
(* The gateway: a collection of records served in a fixed order.           *)
(***************************************************************************)
MaxRecords == 3
MaxLimit == 2
MaxPasses == 2

Names == {"foo", "bar"}
ClassNames == {"Cluster", "Log", "GroupConfig"}

IDNAME(c) ==
    CASE c = "Cluster" -> "cluster_id"
      [] c = "Log" -> "log_id"
      [] c = "GroupConfig" -> "id"

FILTERS(c) ==
    CASE c = "Cluster" -> {"name", "prototype_id"}
      [] c = "Log" -> {}
      [] c = "GroupConfig" -> {"object_id", "object_type"}

API_ONLY_FILTERS(c) == {}

\* the class-level attributes of c among the keys the records carry
Declared(c) ==
    CASE c = "Cluster" -> {"id", "cluster_id", "name"}
      [] c = "Log" -> {"id", "name"}
      [] c = "GroupConfig" -> {"id", "name"}

\* a top-level endpoint has no path arguments
path_args == <<>>

\* the record of object k of class c; every record carries "id", and a
\* gateway of shape "both" also carries the key IDNAME
RecordOf(c, shape, k, name) ==
    IF shape = "both"
    THEN (IDNAME(c) :> k) @@ [id |-> k, name |-> name]
    ELSE [id |-> k, name |-> name]

Collections(c) ==
    { [k \in 1..n |-> RecordOf(c, shape, k, names[k])] :
        <<n, shape, names>> \in
            { t \in (0..MaxRecords) \X {"id", "both"} \X [1..MaxRecords -> Names] :
                \A k \in (t[1] + 1)..MaxRecords : t[3][k] = "foo" } }

Restrict(f, keys) == [k \in keys |-> f[k]]

Return(v) == [raised |-> "", value |-> v]
Raise(e) == [raised |-> e, value |-> <<>>]

\* rec passes the filters of a list call
Holds(rec, filters) ==
    \A k \in DOMAIN filters : k \in DOMAIN rec /\ rec[k] = filters[k]

\* the listing the gateway serves for the filters of a list call
Listing(filters) ==
    LET keep(rec) == Holds(rec, filters)
    IN  IF honours THEN SelectSeq(remote, keep) ELSE remote

Page(s, offset, limit) == SubSeq(s, offset + 1, Min(offset + limit, Len(s)))

\* point.list(**path_args, **paging, **filters)
PointList(paging, filters) ==
    IF envelope /\ "limit" \in DOMAIN paging /\ "offset" \in DOMAIN paging
    THEN [type |-> "OrderedDict",
          results |-> Page(Listing(filters), paging.offset, paging.limit)]
    ELSE [type |-> "list", results |-> Listing(filters)]

ListCall(paging, filters) == [op |-> "list", paging |-> paging, filters |-> filters]
ReadCall(id) == [op |-> "read", id |-> id]
UpdateCall(id, kwargs) == [op |-> "partial_update", id |-> id, kwargs |-> kwargs]

\* EndPoint._get_filters_value
FiltersValue(c, args) ==
    Restrict(args, {v \in FILTERS(c) : v \in DOMAIN args /\ v \notin DOMAIN path_args})

\* the tail of EndPoint.list where a short page also ends the paging
ListResult_ShortPageEnds(paging, answer) ==
    IF answer.type = "OrderedDict"
    THEN IF /\ "offset" \in DOMAIN paging
            /\ "limit" \in DOMAIN paging
            /\ Len(answer.results) < paging.limit
         THEN Raise("PagingEnds")
         ELSE Return(answer.results)
    ELSE IF "offset" \in DOMAIN paging /\ paging.offset # 0
         THEN Raise("PagingEnds")
         ELSE Return(answer.results)

\* the tail of EndPoint.list where a plain list ends the paging whatever
\* the offset
ListResult_PlainListEnds(paging, answer) ==
    IF answer.type = "OrderedDict"
    THEN IF /\ answer.results = <<>>
            /\ "offset" \in DOMAIN paging
            /\ "limit" \in DOMAIN paging
         THEN Raise("PagingEnds")
         ELSE Return(answer.results)
    ELSE IF "offset" \in DOMAIN paging
         THEN Raise("PagingEnds")
         ELSE Return(answer.results)

\* the tail of EndPoint.list: what it makes of the gateway's answer
ListResult(paging, answer) ==
    IF answer.type = "OrderedDict"
    THEN IF /\ answer.results = <<>>
            /\ "offset" \in DOMAIN paging
            /\ "limit" \in DOMAIN paging
         THEN Raise("PagingEnds")
         ELSE Return(answer.results)
    ELSE IF "offset" \in DOMAIN paging /\ paging.offset # 0
         THEN Raise("PagingEnds")
         ELSE Return(answer.results)

\* EndPoint.list
EndPointList(c, paging, args) ==
    ListResult(paging, PointList(paging, FiltersValue(c, args)))

(***************************************************************************)
(* Paging over EndPoint.list of class c.                                   *)
(***************************************************************************)
\* Paging.__init__
NewPaging(limit, args) ==
    [limit |-> limit, query_params |-> args, offset |-> 0,
     current_list |-> <<>>, pos |-> 0, started |-> FALSE]

\* the paging argument of the next list call
PagingOf(pg) == [limit |-> pg.limit, offset |-> pg.offset]

\* Paging.__next_list after the call, advancing the offset by one
Fetched_OffsetByOne(pg, answer) ==
    IF answer.raised = "PagingEnds"
    THEN [stop |-> TRUE, pager |-> pg]
    ELSE [stop |-> FALSE,
          pager |-> [pg EXCEPT !.offset = @ + 1,
                               !.current_list = answer.value,
                               !.pos = 0,
                               !.started = TRUE]]

\* Paging.__next_list after the call: StopIteration, or the page is buffered
Fetched(pg, answer) ==
    IF answer.raised = "PagingEnds"
    THEN [stop |-> TRUE, pager |-> pg]
    ELSE [stop |-> FALSE,
          pager |-> [pg EXCEPT !.offset = @ + pg.limit,
                               !.current_list = answer.value,
                               !.pos = 0,
                               !.started = TRUE]]

\* Paging.__next_list
NextList(c, pg) == Fetched(pg, EndPointList(c, PagingOf(pg), pg.query_params))

\* the log with the list call __next_list makes
Logged(c, pg, log) ==
    Append(log, ListCall(PagingOf(pg), FiltersValue(c, pg.query_params)))

Yield(v, pg, log) == [out |-> "yield", value |-> v, pager |-> pg, calls |-> log]
Stop(pg, log) == [out |-> "StopIteration", value |-> <<>>, pager |-> pg, calls |-> log]

\* the loop of Paging.__next__ ending at the end of the buffered page
NextElement_NoRefill(c, pg, log) ==
    IF pg.pos < Len(pg.current_list)
    THEN Yield(pg.current_list[pg.pos + 1], [pg EXCEPT !.pos = @ + 1], log)
    ELSE Stop(pg, log)

RECURSIVE NextElement(_, _, _)

\* __next_list inside __next__: StopIteration leaves, a new page goes on
Refill(c, nl, log) ==
    IF nl.stop THEN Stop(nl.pager, log) ELSE NextElement(c, nl.pager, log)

\* the loop of Paging.__next__
NextElement(c, pg, log) ==
    IF pg.pos < Len(pg.current_list)
    THEN Yield(pg.current_list[pg.pos + 1], [pg EXCEPT !.pos = @ + 1], log)
    ELSE Refill(c, NextList(c, pg), Logged(c, pg, log))

\* Paging.__next__
PagingNext(c, pg, log) ==
    IF ~pg.started
    THEN Refill(c, NextList(c, pg), Logged(c, pg, log))
    ELSE NextElement(c, pg, log)

InitPaging ==
    /\ NoSearch
    /\ remote \in Collections("Cluster")
    /\ envelope \in BOOLEAN
    /\ honours = TRUE
    /\ calls = <<>>
    /\ \E limit \in 1..MaxLimit : pager = NewPaging(limit, <<>>)
    /\ yielded = <<>>
    /\ pgpc = "new"
    /\ passes = 0
    /\ NoWait
    /\ NoEntity
    /\ NoCollection
    /\ NoEndpoint
    /\ NoTask

\* Paging.__iter__
PagingIter ==
    /\ passes < MaxPasses
    /\ pager' = [pager EXCEPT !.offset = 0]
    /\ passes' = passes + 1
    /\ pgpc' = "iterating"
    /\ yielded' = <<>>
    /\ calls' = <<>>
    /\ UNCHANGED <<remote, envelope, honours>>
    /\ UNCHANGED <<waitVars, entityVars, collectionVars, endpointVars, taskVars, searchVars>>

\* Paging.__next__ called by the loop that iterates the instance
PagingStep ==
    /\ pgpc = "iterating"
    /\ LET r == PagingNext("Cluster", pager, calls)
       IN  /\ pager' = r.pager
           /\ calls' = r.calls
           /\ IF r.out = "yield"
              THEN yielded' = Append(yielded, r.value) /\ pgpc' = pgpc
              ELSE yielded' = yielded /\ pgpc' = "stopped"
    /\ UNCHANGED <<remote, envelope, honours, passes>>
    /\ UNCHANGED <<waitVars, entityVars, collectionVars, endpointVars, taskVars, searchVars>>

NextPaging ==
    \/ PagingIter
    \/ PagingStep

SpecPaging == InitPaging /\ [][NextPaging]_vars

CeilDiv(a, b) == (a + b - 1) \div b

\* the first pass over a new Paging instance is under way or has ended
FirstPass == passes = 1

(***************************************************************************)
(* C5: over a static collection of N records served as paginated           *)
(* envelopes, with any page size L >= 1, one full iteration of a Paging    *)
(* yields exactly the N records, each once, in server order, and then      *)
(* ends with StopIteration.                                                *)
(***************************************************************************)
C5_PagingYieldsAll ==
    (FirstPass /\ envelope) =>
        /\ Len(yielded) <= Len(remote)
        /\ yielded = SubSeq(remote, 1, Len(yielded))
        /\ pgpc = "stopped" => yielded = remote
        /\ (pgpc = "iterating" /\ yielded = remote) =>
               PagingNext("Cluster", pager, calls).out = "StopIteration"
        /\ (pgpc = "iterating" /\ yielded # remote) =>
               PagingNext("Cluster", pager, calls).out = "yield"

C5_Witness ==
    /\ FirstPass
    /\ envelope
    /\ pgpc = "stopped"
    /\ Len(remote) = 3
    /\ pager.limit = 2
    /\ yielded = remote

(***************************************************************************)
(* C22: against a gateway that answers every list call with the whole      *)
(* collection as a plain list, one iteration of a Paging with limit >= 1   *)
(* yields every record once, in order, and ends: the call at offset 0      *)
(* returns the list and the next call, at the offset limit, ends the       *)
(* paging.                                                                 *)
(***************************************************************************)
C22_PlainListOnce ==
    (FirstPass /\ ~envelope) =>
        /\ yielded = SubSeq(remote, 1, Len(yielded))
        /\ Len(calls) >= 1 => calls[1].paging = [limit |-> pager.limit, offset |-> 0]
        /\ pgpc = "iterating" =>
              /\ Len(calls) <= 1
              /\ PagingNext("Cluster", pager, calls).out =
                    IF yielded = remote THEN "StopIteration" ELSE "yield"
        /\ pgpc = "stopped" =>
              /\ yielded = remote
              /\ Len(calls) = 2
              /\ calls[2].paging = [limit |-> pager.limit, offset |-> pager.limit]

C22_Witness ==
    /\ FirstPass
    /\ ~envelope
    /\ pgpc = "stopped"
    /\ Len(remote) = 3
    /\ pager.limit = 1
    /\ yielded = remote
    /\ Len(calls) = 2

(***************************************************************************)
(* C6 as stated: one full iteration over a static collection of N records  *)
(* with page size L issues exactly ceil((N+1)/L) page requests.            *)
(***************************************************************************)
C6_Original ==
    (FirstPass /\ envelope /\ pgpc = "stopped") =>
        Len(calls) = CeilDiv(Len(remote) + 1, pager.limit)

(***************************************************************************)
(* C6 amended: one full iteration over a static collection of N records    *)
(* with page size L issues exactly ceil(N/L) + 1 page requests, at the     *)
(* offsets 0, L, 2L, ..., when the gateway serves paginated envelopes, and *)
(* exactly 2 requests, at the offsets 0 and L, when it serves plain lists. *)
(***************************************************************************)
C6_Amended ==
    (FirstPass /\ pgpc = "stopped") =>
        /\ Len(calls) = IF envelope THEN CeilDiv(Len(remote), pager.limit) + 1 ELSE 2
        /\ \A k \in 1..Len(calls) :
              /\ calls[k].op = "list"
              /\ calls[k].paging = [limit |-> pager.limit, offset |-> (k - 1) * pager.limit]

C6_Witness ==
    /\ FirstPass
    /\ envelope
    /\ pgpc = "stopped"
    /\ Len(remote) = 3
    /\ pager.limit = 2
    /\ Len(calls) = 3

(***************************************************************************)
(* util/search.py. The fields of a record are scalars but those named by   *)
(* NestedFields, which hold a list.                                        *)
(***************************************************************************)
\* the fields whose value is a list
NestedFields == {"jobs"}

\* filter_data that compares the fields that hold a list as well
filter_data_Nested(x, kwargs) ==
    /\ DOMAIN x \cap DOMAIN kwargs # {}
    /\ \A k \in DOMAIN x \cap DOMAIN kwargs : kwargs[k] = x[k]

filter_data(x, kwargs) ==
    LET new_attrs == Restrict(kwargs, (DOMAIN x \ NestedFields) \cap DOMAIN kwargs)
    IN  /\ DOMAIN new_attrs # {}
        /\ \A k \in DOMAIN new_attrs : new_attrs[k] = x[k]

search(items, kwargs) ==
    LET keep(x) == filter_data(x, kwargs)
    IN  IF DOMAIN kwargs = {} THEN items ELSE SelectSeq(items, keep)

search_one(items, kwargs) ==
    LET found == search(items, kwargs)
    IN  IF Len(found) > 1 THEN Raise("TooManyResult")
        ELSE IF found = <<>> THEN Return(None)
        ELSE Return(Some(found[1]))

(***************************************************************************)
(* EndPoint.read and EndPoint.search_one.                                  *)
(***************************************************************************)
MaxOps == 2

\* point.read of an id the collection lacks raises or answers None
MissingRead == {"ErrorMessage", "None"}

\* point.read(**{idname: object_id}) on the collection coll
PointRead(coll, id, miss) ==
    IF \E p \in 1..Len(coll) : coll[p].id = id
    THEN Return(Some(coll[CHOOSE p \in 1..Len(coll) : coll[p].id = id]))
    ELSE IF miss = "None" THEN Return(None) ELSE Raise(miss)

\* EndPoint.read
EndPointRead(coll, id, miss) == PointRead(coll, id, miss)

\* the id of the fast path when only the key IDNAME takes it
ReadKey_IdnameOnly(c, args) ==
    IF IDNAME(c) \in DOMAIN args THEN Some(args[IDNAME(c)]) ELSE None

\* the id of the fast path when only the key "id" takes it
ReadKey_IdOnly(c, args) ==
    IF "id" \in DOMAIN args THEN Some(args.id) ELSE None

\* the id of the fast path when the key "id" is looked at first
ReadKey_IdFirst(c, args) ==
    IF "id" \in DOMAIN args THEN Some(args.id)
    ELSE IF IDNAME(c) \in DOMAIN args THEN Some(args[IDNAME(c)])
    ELSE None

\* the id of the fast path of search_one, None on the search path
ReadKey(c, args) ==
    IF IDNAME(c) \in DOMAIN args THEN Some(args[IDNAME(c)])
    ELSE IF "id" \in DOMAIN args THEN Some(args.id)
    ELSE None

\* Paging(self.list, **args), iterated from the start
PagingFor(args) ==
    NewPaging(IF "limit" \in DOMAIN args THEN args.limit ELSE DefaultLimit,
              Restrict(args, DOMAIN args \ {"limit"}))

Found(r, v, log) == [raised |-> r, value |-> v, calls |-> log]

RECURSIVE SearchLoop_Exhaustive(_, _, _, _)

\* as Picked, but the remaining pages are read before the match is kept
Picked_Exhaustive(d, rest, log) ==
    IF d.raised # "" THEN Found(d.raised, None, log)
    ELSE IF d.value # None THEN Found("", d.value, rest.calls)
    ELSE rest

Examined_Exhaustive(c, kwargs, n) ==
    IF n.out = "StopIteration" THEN Found("", None, n.calls)
    ELSE Picked_Exhaustive(search_one(<<n.value>>, kwargs),
                           SearchLoop_Exhaustive(c, n.pager, kwargs, n.calls),
                           n.calls)

\* the loop of search_one reading every page before it picks the match
SearchLoop_Exhaustive(c, pg, kwargs, log) ==
    Examined_Exhaustive(c, kwargs, PagingNext(c, pg, log))

RECURSIVE SearchLoop(_, _, _, _)

\* the body of the loop for the element obj: break on a match, else go on
Picked(c, kwargs, n, d) ==
    IF d.raised # "" THEN Found(d.raised, None, n.calls)
    ELSE IF d.value # None THEN Found("", d.value, n.calls)
    ELSE SearchLoop(c, n.pager, kwargs, n.calls)

\* one step of the for loop: the Paging ends, or yields obj
Examined(c, kwargs, n) ==
    IF n.out = "StopIteration" THEN Found("", None, n.calls)
    ELSE Picked(c, kwargs, n, search_one(<<n.value>>, kwargs))

\* the loop of search_one over the Paging
SearchLoop(c, pg, kwargs, log) == Examined(c, kwargs, PagingNext(c, pg, log))

\* EndPoint.read with the call it makes appended to the log
ReadLogged(id, miss, log) ==
    Found(EndPointRead(remote, id, miss).raised,
          EndPointRead(remote, id, miss).value,
          Append(log, ReadCall(id)))

\* search_one after the loop
AfterLoop(f, miss) ==
    IF f.raised # "" THEN f
    ELSE IF f.value = None THEN Found("ObjectNotFound", None, f.calls)
    ELSE IF "id" \notin DOMAIN f.value[1] THEN Found("KeyError", None, f.calls)
    ELSE ReadLogged(f.value[1].id, miss, f.calls)

\* search_one once the fast path is decided
SearchOneBy(c, args, miss, key) ==
    IF key # None
    THEN ReadLogged(key[1], miss, <<>>)
    ELSE AfterLoop(SearchLoop(c, [PagingFor(args) EXCEPT !.offset = 0],
                              Restrict(args, DOMAIN args \ API_ONLY_FILTERS(c)),
                              <<>>),
                   miss)

\* EndPoint.search_one(api_only_filters=API_ONLY_FILTERS, **args)
EndPointSearchOne(c, args, miss) == SearchOneBy(c, args, miss, ReadKey(c, args))

(***************************************************************************)
(* BaseAPIObject: construction, reread and update.                         *)
(***************************************************************************)
\* the ids the criteria name: the first record's and one no record has
ProbeIds == {1, MaxRecords + 1}

Optional(S) == {<<>>} \cup S

CriteriaOf(c) ==
    { byName @@ byIdname @@ byId @@ byLimit :
        byName \in Optional({[name |-> x] : x \in Names}),
        byIdname \in Optional({IDNAME(c) :> v : v \in ProbeIds}),
        byId \in Optional({[id |-> v] : v \in ProbeIds}),
        byLimit \in Optional({[limit |-> v] : v \in 1..MaxLimit}) }

\* the class-level defaults
ClassAttrs(c) == [a \in Declared(c) |-> None]

\* BaseAPIObject._register_attrs
RegisterAttrs(old, d) ==
    [a \in DOMAIN old |-> IF a \in DOMAIN d THEN Some(d[a]) ELSE old[a]]

InitEntity ==
    /\ NoSearch
    /\ cls \in ClassNames
    /\ remote \in Collections(cls)
    /\ envelope \in BOOLEAN
    /\ honours \in BOOLEAN
    /\ calls = <<>>
    /\ criteria = <<>>
    /\ constructed = FALSE
    /\ data = None
    /\ attrs = ClassAttrs(cls)
    /\ op = ""
    /\ raised = ""
    /\ ops = 0
    /\ NoWait
    /\ NoPaging
    /\ NoCollection
    /\ NoEndpoint
    /\ NoTask

\* __init__ after search_one answered r
Assigned(r) ==
    /\ calls' = r.calls
    /\ IF r.raised # ""
       THEN /\ raised' = r.raised
            /\ UNCHANGED <<data, attrs, constructed>>
       ELSE IF r.value = None
       THEN /\ raised' = "ObjectNotFound"
            /\ data' = None
            /\ UNCHANGED <<attrs, constructed>>
       ELSE IF "id" \notin DOMAIN r.value[1]
       THEN /\ raised' = "KeyError"
            /\ data' = r.value
            /\ UNCHANGED <<attrs, constructed>>
       ELSE /\ raised' = ""
            /\ data' = Some((IDNAME(cls) :> r.value[1].id) @@ r.value[1])
            /\ attrs' = RegisterAttrs(attrs, (IDNAME(cls) :> r.value[1].id) @@ r.value[1])
            /\ constructed' = TRUE

\* BaseAPIObject.__init__(api, **args)
Construct(args, miss) ==
    /\ op = ""
    /\ op' = "construct"
    /\ criteria' = args
    /\ Assigned(EndPointSearchOne(cls, args, miss))
    /\ UNCHANGED <<remote, envelope, honours, cls, ops>>
    /\ UNCHANGED <<waitVars, pagingVars, collectionVars, endpointVars, taskVars, searchVars>>

\* reread() after read(self.id) answered r
Reloaded(r) ==
    IF r.raised # ""
    THEN raised' = r.raised /\ UNCHANGED <<data, attrs>>
    ELSE IF r.value = None
    THEN raised' = "ObjectNotFound" /\ data' = None /\ UNCHANGED attrs
    ELSE /\ raised' = ""
         /\ data' = r.value
         /\ attrs' = RegisterAttrs(attrs, r.value[1])

\* the effect of reread() on the instance once the gateway holds coll
RereadFrom(coll, log, miss) ==
    /\ calls' = Append(log, ReadCall(attrs.id[1]))
    /\ Reloaded(EndPointRead(coll, attrs.id[1], miss))

\* BaseAPIObject.reread
Reread(miss) ==
    /\ constructed
    /\ ops < MaxOps
    /\ ops' = ops + 1
    /\ op' = "reread"
    /\ RereadFrom(remote, <<>>, miss)
    /\ UNCHANGED <<remote, envelope, honours, cls, criteria, constructed>>
    /\ UNCHANGED <<waitVars, pagingVars, collectionVars, endpointVars, taskVars, searchVars>>

\* point.partial_update(**kwargs) for the object id
Updated(coll, id, kwargs) ==
    [p \in 1..Len(coll) |->
        IF coll[p].id = id THEN kwargs @@ coll[p] ELSE coll[p]]

\* the collection coll holds an object id
Holding(coll, id) == \E p \in 1..Len(coll) : coll[p].id = id

\* BaseAPIObject.update without the reread
Update_NoReread(kwargs, miss) ==
    /\ constructed
    /\ ops < MaxOps
    /\ ops' = ops + 1
    /\ op' = "update"
    /\ raised' = IF Holding(remote, attrs.id[1]) THEN "" ELSE "ErrorMessage"
    /\ remote' = Updated(remote, attrs.id[1], kwargs)
    /\ calls' = <<UpdateCall(attrs.id[1], kwargs)>>
    /\ UNCHANGED <<data, attrs>>
    /\ UNCHANGED <<envelope, honours, cls, criteria, constructed>>
    /\ UNCHANGED <<waitVars, pagingVars, collectionVars, endpointVars, taskVars, searchVars>>

\* BaseAPIObject.update(**kwargs)
Update(kwargs, miss) ==
    /\ constructed
    /\ ops < MaxOps
    /\ ops' = ops + 1
    /\ op' = "update"
    /\ IF Holding(remote, attrs.id[1])
       THEN /\ remote' = Updated(remote, attrs.id[1], kwargs)
            /\ RereadFrom(remote', <<UpdateCall(attrs.id[1], kwargs)>>, miss)
       ELSE /\ raised' = "ErrorMessage"
            /\ calls' = <<UpdateCall(attrs.id[1], kwargs)>>
            /\ UNCHANGED <<remote, data, attrs>>
    /\ UNCHANGED <<envelope, honours, cls, criteria, constructed>>
    /\ UNCHANGED <<waitVars, pagingVars, collectionVars, endpointVars, taskVars, searchVars>>

NextEntity ==
    \/ \E args \in CriteriaOf(cls), miss \in MissingRead : Construct(args, miss)
    \/ \E miss \in MissingRead : Reread(miss)
    \/ \E x \in Names, miss \in MissingRead : Update([name |-> x], miss)

SpecEntity == InitEntity /\ [][NextEntity]_vars

\* the constructor has just run, and took the search path
Searched == op = "construct" /\ ReadKey(cls, criteria) = None

\* the arguments search_one hands to the client-side filter
ClientAttrs == Restrict(criteria, DOMAIN criteria \ API_ONLY_FILTERS(cls))

\* rec passes the client-side filter of the criteria
Matches(rec) == search(<<rec>>, ClientAttrs) # <<>>

\* the listing the list calls of the constructor page through
Paged == Listing(FiltersValue(cls, PagingFor(criteria).query_params))

PageSize == PagingFor(criteria).limit

\* the list calls for the first n pages
ListCalls(n) ==
    [k \in 1..n |->
        ListCall([limit |-> PageSize, offset |-> (k - 1) * PageSize],
                 FiltersValue(cls, PagingFor(criteria).query_params))]

\* the position in the listing of the first record that matches
FirstMatch ==
    CHOOSE p \in 1..Len(Paged) :
        Matches(Paged[p]) /\ \A q \in 1..(p - 1) : ~Matches(Paged[q])

\* the page of the listing that holds position p
PageOf(p) == IF envelope THEN CeilDiv(p, PageSize) ELSE 1

\* the list calls that page through the whole listing up to PagingEnds
PagesToExhaustion == IF envelope THEN CeilDiv(Len(Paged), PageSize) + 1 ELSE 2

(***************************************************************************)
(* C4 as stated: when the criteria hold neither the key IDNAME nor "id"    *)
(* and more than one remote record matches them, construction fails.       *)
(***************************************************************************)
C4_AmbiguousCriteriaFail ==
    (Searched /\ Cardinality({p \in 1..Len(remote) : Matches(remote[p])}) > 1) =>
        (~constructed /\ raised # "")

(***************************************************************************)
(* C7: when the first record matching the criteria lies on page k of the   *)
(* listing, construction makes exactly k list calls, at the offsets        *)
(* 0, L, ..., (k-1)L, and then exactly one read call, for the id of that   *)
(* record, and the instance is built.                                      *)
(***************************************************************************)
C7_LazyResolution ==
    (Searched /\ \E p \in 1..Len(Paged) : Matches(Paged[p])) =>
        /\ calls = Append(ListCalls(PageOf(FirstMatch)), ReadCall(Paged[FirstMatch].id))
        /\ constructed
        /\ raised = ""
        /\ attrs.id = Some(Paged[FirstMatch].id)

C7_Witness ==
    /\ Searched
    /\ envelope
    /\ Len(Paged) = 3
    /\ PageSize = 1
    /\ ~Matches(Paged[1])
    /\ Matches(Paged[2])
    /\ constructed
    /\ Len(calls) = 3
    /\ calls[2] = ListCall([limit |-> 1, offset |-> 1], <<>>)
    /\ calls[3] = ReadCall(2)

(***************************************************************************)
(* C8: when the criteria hold the key IDNAME or the key "id", construction *)
(* makes exactly one gateway call, the read of that id, whatever the       *)
(* gateway answers.                                                        *)
(***************************************************************************)
C8_FastPath ==
    (op = "construct" /\ (IDNAME(cls) \in DOMAIN criteria \/ "id" \in DOMAIN criteria)) =>
        /\ Len(calls) = 1
        /\ calls[1] = ReadCall(IF IDNAME(cls) \in DOMAIN criteria
                               THEN criteria[IDNAME(cls)] ELSE criteria.id)

C8_Witness ==
    /\ op = "construct"
    /\ cls = "Cluster"
    /\ "id" \in DOMAIN criteria
    /\ "cluster_id" \notin DOMAIN criteria
    /\ "name" \in DOMAIN criteria
    /\ Len(remote) = 3
    /\ constructed
    /\ calls = <<ReadCall(1)>>

\* the criteria hold an id key next to other keys
IdAmongOthers ==
    /\ op = "construct"
    /\ DOMAIN criteria \cap {IDNAME(cls), "id"} # {}
    /\ DOMAIN criteria \ {IDNAME(cls), "id"} # {}

\* the id such criteria resolve by: the IDNAME value before the "id" value
ResolvingId ==
    IF IDNAME(cls) \in DOMAIN criteria THEN criteria[IDNAME(cls)] ELSE criteria.id

(***************************************************************************)
(* C28: criteria that hold the key IDNAME or "id" next to other filters    *)
(* are resolved by the id alone: the one gateway call is the read of that  *)
(* id, of the IDNAME value when both keys are given, and the record with   *)
(* that id is bound whether or not it satisfies the other filters.         *)
(***************************************************************************)
C28_IdOverridesFilters ==
    IdAmongOthers =>
        /\ calls = <<[op |-> "read", id |-> ResolvingId]>>
        /\ \A p \in 1..Len(remote) :
              remote[p].id = ResolvingId =>
                  /\ constructed
                  /\ raised = ""
                  /\ data = Some((IDNAME(cls) :> remote[p].id) @@ remote[p])
        /\ (\A p \in 1..Len(remote) : remote[p].id # ResolvingId) => ~constructed

C28_Witness ==
    /\ IdAmongOthers
    /\ cls = "Cluster"
    /\ criteria = [name |-> "bar", cluster_id |-> 1, id |-> MaxRecords + 1]
    /\ Len(remote) = 3
    /\ remote[1].name = "foo"
    /\ constructed
    /\ attrs.id = Some(1)
    /\ attrs.name = Some("foo")
    /\ calls = <<ReadCall(1)>>

(***************************************************************************)
(* C9: when the criteria hold neither the key IDNAME nor "id" and match no *)
(* remote record, construction raises ObjectNotFound, leaves no data and   *)
(* no attribute set, and has by then requested every page of the listing   *)
(* up to the one that signals the end of the paging, and nothing else.     *)
(***************************************************************************)
C9_NotFoundAfterAllPages ==
    (Searched /\ \A p \in 1..Len(remote) : ~Matches(remote[p])) =>
        /\ raised = "ObjectNotFound"
        /\ ~constructed
        /\ data = None
        /\ attrs = ClassAttrs(cls)
        /\ calls = ListCalls(PagesToExhaustion)

C9_Witness ==
    /\ Searched
    /\ envelope
    /\ cls = "Log"
    /\ "name" \in DOMAIN criteria
    /\ Len(Paged) = 3
    /\ PageSize = 2
    /\ \A p \in 1..Len(remote) : ~Matches(remote[p])
    /\ raised = "ObjectNotFound"
    /\ Len(calls) = 3
    /\ calls[3].paging.offset = 4

(***************************************************************************)
(* C10 as stated: in every state after construction, through any rereads   *)
(* and updates, the instance has the attribute named IDNAME and the        *)
(* attribute id, and both hold the same integer.                           *)
(***************************************************************************)
C10_IdAliasing ==
    constructed =>
        /\ IDNAME(cls) \in DOMAIN attrs
        /\ "id" \in DOMAIN attrs
        /\ attrs[IDNAME(cls)] = attrs.id
        /\ attrs.id # None
        /\ attrs.id[1] \in Nat

(***************************************************************************)
(* C16 as stated: a pass started by a further iter() on the same Paging    *)
(* yields the collection from its first element, each element once, in     *)
(* server order, whether the pass before it was completed or abandoned in  *)
(* the middle of a page.                                                   *)
(***************************************************************************)
C16_FreshIteration ==
    (passes > 1 /\ envelope) =>
        /\ Len(yielded) <= Len(remote)
        /\ yielded = SubSeq(remote, 1, Len(yielded))
        /\ pgpc = "stopped" => yielded = remote

MaxChanges == 1

\* a filter value for a key the records do not carry
AnyPrototype == 7

\* EndPoint.search handing on the listing without the client-side filter
Searching_Unfiltered(c, args, l) == l

\* EndPoint.search after the list call answered l
Searching(c, args, l) ==
    IF l.raised # "" THEN l
    ELSE IF Len(l.value) = 0 THEN l
    ELSE Return(search(l.value, Restrict(args, DOMAIN args \ API_ONLY_FILTERS(c))))

\* EndPoint.search(paging, api_only_filters=API_ONLY_FILTERS, **args)
EndPointSearch(c, paging, args) == Searching(c, args, EndPointList(c, paging, args))

\* EndPoint.get_object_path
GetObjectPath(c, id) == (IDNAME(c) :> id) @@ path_args

DeleteCall(path) == [op |-> "delete", path |-> path]

\* point.delete(**path) for the object id
Deleted(coll, id) ==
    LET keep(rec) == rec.id # id
    IN  SelectSeq(coll, keep)

\* the _data of an entry: what its constructor makes of search_one's answer
EntryData(c, r) == (IDNAME(c) :> r.value[1].id) @@ r.value[1]

RECURSIVE Flatten(_)
Flatten(seqs) == IF seqs = <<>> THEN <<>> ELSE Head(seqs) \o Flatten(Tail(seqs))

\* the loop of BaseAPIListObject.__init__ over the records search returned
EntriesOf(c, found, idkey) ==
    [k \in 1..Len(found) |->
        EntryData(c, EndPointSearchOne(c, idkey :> found[k].id, "ErrorMessage"))]

EntryCalls(c, found, idkey) ==
    Flatten([k \in 1..Len(found) |->
                EndPointSearchOne(c, idkey :> found[k].id, "ErrorMessage").calls])

\* BaseAPIListObject.__init__ after search answered f
Collected(c, f, idkey, call) ==
    IF f.raised # ""
    THEN /\ lraised' = f.raised
         /\ entries' = <<>>
         /\ calls' = <<call>>
    ELSE /\ lraised' = ""
         /\ entries' = EntriesOf(c, f.value, idkey)
         /\ calls' = <<call>> \o EntryCalls(c, f.value, idkey)

\* BaseAPIListObject.__init__(api, paging=paging, **args); idkey is "id" or
\* IDNAME, as the server's version decides
BuildList(paging, args, idkey) ==
    /\ ~built
    /\ built' = TRUE
    /\ listArgs' = [paging |-> paging, args |-> args]
    /\ builtFrom' = remote
    /\ Collected(cls, EndPointSearch(cls, paging, args), idkey,
                 ListCall(paging, FiltersValue(cls, args)))
    /\ UNCHANGED <<changes, gone>>
    /\ UNCHANGED <<remote, envelope, honours>>
    /\ UNCHANGED <<waitVars, pagingVars, entityVars, endpointVars, taskVars, searchVars>>

\* another client creates an object
RemoteCreate(name) ==
    /\ changes < MaxChanges
    /\ changes' = changes + 1
    /\ remote' = Append(remote,
                        RecordOf(cls,
                                 IF remote # <<>> /\ DOMAIN remote[1] = {"id", "name"}
                                 THEN "id" ELSE "both",
                                 MaxRecords + changes + 1, name))
    /\ UNCHANGED <<envelope, honours, calls>>
    /\ UNCHANGED <<entries, built, listArgs, lraised, builtFrom, gone>>
    /\ UNCHANGED <<waitVars, pagingVars, entityVars, endpointVars, taskVars, searchVars>>

\* another client deletes the object at position p of the listing
RemoteDelete(p) ==
    /\ changes < MaxChanges
    /\ p \in 1..Len(remote)
    /\ changes' = changes + 1
    /\ remote' = Deleted(remote, remote[p].id)
    /\ UNCHANGED <<envelope, honours, calls>>
    /\ UNCHANGED <<entries, built, listArgs, lraised, builtFrom, gone>>
    /\ UNCHANGED <<waitVars, pagingVars, entityVars, endpointVars, taskVars, searchVars>>

PagingArgs ==
    {<<>>} \cup { [limit |-> l, offset |-> o] :
                    l \in 1..MaxLimit, o \in {0, MaxLimit, MaxRecords} }

ListFilters ==
    { byName @@ byPrototype :
        byName \in Optional({[name |-> x] : x \in Names}),
        byPrototype \in Optional({[prototype_id |-> AnyPrototype]}) }

InitCollection ==
    /\ NoSearch
    /\ cls \in {"Cluster", "Log"}
    /\ remote \in Collections(cls)
    /\ envelope \in BOOLEAN
    /\ honours = TRUE
    /\ calls = <<>>
    /\ criteria = <<>>
    /\ constructed = FALSE
    /\ data = None
    /\ attrs = ClassAttrs(cls)
    /\ op = ""
    /\ raised = ""
    /\ ops = 0
    /\ NoCollection
    /\ NoWait
    /\ NoPaging
    /\ NoEndpoint
    /\ NoTask

NextCollection ==
    \/ \E paging \in PagingArgs, args \in ListFilters, idkey \in {"id", IDNAME(cls)} :
          BuildList(paging, args, idkey)
    \/ \E name \in Names : RemoteCreate(name)
    \/ \E p \in 1..MaxRecords : RemoteDelete(p)

SpecCollection == InitCollection /\ [][NextCollection]_vars

\* the records the gateway answered to the list call of the collection's
\* constructor, from the collection it held then
Answered ==
    LET sent(rec) == Holds(rec, FiltersValue(cls, listArgs.args))
        listing == IF honours THEN SelectSeq(builtFrom, sent) ELSE builtFrom
    IN  IF envelope /\ DOMAIN listArgs.paging = {"limit", "offset"}
        THEN Page(listing, listArgs.paging.offset, listArgs.paging.limit)
        ELSE listing

\* the client-side filter: every filter key the record carries is equal,
\* and the record carries at least one of them
Passes(rec) ==
    \/ DOMAIN listArgs.args = {}
    \/ /\ DOMAIN listArgs.args \cap DOMAIN rec # {}
       /\ \A k \in DOMAIN listArgs.args \cap DOMAIN rec : rec[k] = listArgs.args[k]

Kept == SelectSeq(Answered, Passes)

(***************************************************************************)
(* C13 as stated: the constructor of a collection never raises PagingEnds, *)
(* also when it is given explicit paging and the requested page of a       *)
(* paginated listing is empty.                                             *)
(***************************************************************************)
C13_PagingEndsKeptInside ==
    (built /\ envelope /\ DOMAIN listArgs.paging = {"limit", "offset"}) =>
        /\ lraised # "PagingEnds"
        /\ Answered = <<>> => (lraised = "" /\ entries = <<>>)

(***************************************************************************)
(* C17: a collection whose constructor returned holds exactly the records  *)
(* its one list call was answered that pass the client-side filter, in     *)
(* the order of the answer, each as read by one read of its id; this stays *)
(* so whatever other clients create or delete afterwards.                  *)
(***************************************************************************)
C17_CollectionIsSnapshot ==
    (built /\ lraised = "") =>
        /\ Len(entries) = Len(Kept)
        /\ \A k \in 1..Len(Kept) :
              /\ entries[k] = (IDNAME(cls) :> Kept[k].id) @@ Kept[k]
              /\ calls[k + 1] = ReadCall(Kept[k].id)
        /\ Len(calls) = Len(Kept) + 1
        /\ calls[1] = ListCall(listArgs.paging, FiltersValue(cls, listArgs.args))

C17_Witness ==
    /\ built
    /\ lraised = ""
    /\ cls = "Log"
    /\ "name" \in DOMAIN listArgs.args
    /\ Len(builtFrom) = 3
    /\ Len(entries) = 2
    /\ changes = 1
    /\ Len(remote) = 2
    /\ \E k \in 1..2 : ~Holding(remote, entries[k].id)

(***************************************************************************)
(* C20 as stated: when the filters hold at least one key that is not       *)
(* api-only, every record EndPoint.search returns carries every one of     *)
(* those keys with a value equal to the filter's.                          *)
(***************************************************************************)
C20_EveryFilterKeyEqual ==
    (built /\ lraised = "" /\ DOMAIN listArgs.args \ API_ONLY_FILTERS(cls) # {}) =>
        \A k \in 1..Len(entries) :
            \A key \in DOMAIN listArgs.args \ API_ONLY_FILTERS(cls) :
                key \in DOMAIN entries[k] /\ entries[k][key] = listArgs.args[key]

(***************************************************************************)
(* BaseAPIObject.delete, and the life of one instance next to collections  *)
(* built from the same endpoint.                                           *)
(***************************************************************************)
\* BaseAPIObject.delete that also drops the local fields
Delete_Invalidating ==
    /\ constructed
    /\ ops < MaxOps
    /\ ops' = ops + 1
    /\ op' = "delete"
    /\ calls' = <<DeleteCall(GetObjectPath(cls, attrs.id[1]))>>
    /\ raised' = IF Holding(remote, attrs.id[1]) THEN "" ELSE "ErrorMessage"
    /\ remote' = Deleted(remote, attrs.id[1])
    /\ gone' = IF Holding(remote, attrs.id[1]) THEN gone \cup {attrs.id[1]} ELSE gone
    /\ data' = None
    /\ attrs' = ClassAttrs(cls)
    /\ UNCHANGED <<envelope, honours, cls, criteria, constructed>>
    /\ UNCHANGED <<entries, built, listArgs, lraised, builtFrom, changes>>
    /\ UNCHANGED <<waitVars, pagingVars, endpointVars, taskVars, searchVars>>

\* BaseAPIObject.delete(); gone records the ids whose delete call succeeded
Delete ==
    /\ constructed
    /\ ops < MaxOps
    /\ ops' = ops + 1
    /\ op' = "delete"
    /\ calls' = <<DeleteCall(GetObjectPath(cls, attrs.id[1]))>>
    /\ raised' = IF Holding(remote, attrs.id[1]) THEN "" ELSE "ErrorMessage"
    /\ remote' = Deleted(remote, attrs.id[1])
    /\ gone' = IF Holding(remote, attrs.id[1]) THEN gone \cup {attrs.id[1]} ELSE gone
    /\ UNCHANGED <<data, attrs>>
    /\ UNCHANGED <<envelope, honours, cls, criteria, constructed>>
    /\ UNCHANGED <<entries, built, listArgs, lraised, builtFrom, changes>>
    /\ UNCHANGED <<waitVars, pagingVars, endpointVars, taskVars, searchVars>>

\* the gateway stops serving the field name of the object at position p
RemoteDrop(p) ==
    /\ changes < MaxChanges
    /\ p \in 1..Len(remote)
    /\ "name" \in DOMAIN remote[p]
    /\ changes' = changes + 1
    /\ remote' = [remote EXCEPT ![p] = Restrict(@, DOMAIN @ \ {"name"})]
    /\ UNCHANGED <<envelope, honours, calls>>
    /\ UNCHANGED <<entries, built, listArgs, lraised, builtFrom, gone>>
    /\ UNCHANGED <<waitVars, pagingVars, entityVars, endpointVars, taskVars, searchVars>>

InitLifecycle == InitCollection

NextLifecycle ==
    \/ \E k \in 1..MaxRecords, miss \in MissingRead : Construct([id |-> k], miss)
    \/ Delete
    \/ \E miss \in MissingRead : Reread(miss)
    \/ \E x \in Names, miss \in MissingRead : Update([name |-> x], miss)
    \/ \E p \in 1..MaxRecords : RemoteDelete(p)
    \/ \E p \in 1..MaxRecords : RemoteDrop(p)
    \/ \E idkey \in {"id", IDNAME(cls)} : BuildList(<<>>, <<>>, idkey)

SpecLifecycle == InitLifecycle /\ [][NextLifecycle]_vars

(***************************************************************************)
(* C12 as stated: a reread() that fails, because the read raised or        *)
(* because it answered nothing, leaves the instance's _data and            *)
(* attributes as they were.                                                *)
(***************************************************************************)
C12_RereadAtomic ==
    [][(op' = "reread" /\ ops' = ops + 1 /\ raised' # "") =>
            (data' = data /\ attrs' = attrs)]_vars

(***************************************************************************)
(* C27 as stated: after a reread() that succeeded every declared attribute *)
(* reflects the record just fetched: it holds the record's value for the   *)
(* field, and no value of the record before when the new record lacks the  *)
(* field (the attribute IDNAME, which the constructor aliases to id and    *)
(* which a record need not carry, is left aside).                          *)
(***************************************************************************)
C27_RereadOverwrites ==
    (op = "reread" /\ raised = "") =>
        \A a \in DOMAIN attrs \ {IDNAME(cls)} :
            attrs[a] = IF a \in DOMAIN data[1] THEN Some(data[1][a]) ELSE None

(***************************************************************************)
(* C18: delete() makes exactly one gateway call, the delete addressed by   *)
(* the path arguments and the instance's id, and leaves the instance's     *)
(* fields as they were; once it succeeded the gateway no longer holds the  *)
(* object, and a collection built afterwards has no entry for it.          *)
(***************************************************************************)
C18_DeleteOnce ==
    [][/\ (op' = "delete" /\ ops' = ops + 1) =>
            /\ calls' = <<[op |-> "delete",
                           path |-> (IDNAME(cls) :> attrs.id[1]) @@ path_args]>>
            /\ data' = data
            /\ attrs' = attrs
            /\ raised' = "" => (attrs.id[1] \in gone' /\ ~Holding(remote', attrs.id[1]))
       /\ (built' /\ ~built) =>
            \A k \in 1..Len(entries') : entries'[k].id \notin gone]_vars

C18_Witness ==
    /\ op = "delete"
    /\ raised = ""
    /\ calls[1].op = "list"
    /\ built
    /\ lraised = ""
    /\ gone = {2}
    /\ attrs.id = Some(2)
    /\ data # None
    /\ Len(entries) = 2
    /\ Len(builtFrom) = 2
    /\ ~Holding(builtFrom, 2)

(***************************************************************************)
(* EndPoint against a gateway schema.  The wrapper turns the schema into a *)
(* tree of APINode objects whose attributes are the node's actions and its *)
(* sub-nodes; a schema is the set of the paths that exist in that tree.    *)
(***************************************************************************)
ActionNames == {"list", "read", "delete", "partial_update"}

\* every path a schema may hold
SchemaPaths ==
    {<<"cluster">>, <<"cluster", "host">>, <<"cluster", "host", "list">>}
        \cup {<<"cluster", a>> : a \in ActionNames}

Prefix(path, n) == [k \in 1..n |-> path[k]]

\* ADCMApiWrapper._parse_schema: a node exists only inside its parent
Schemas ==
    { s \in SUBSET SchemaPaths :
        \A path \in s : \A n \in 1..(Len(path) - 1) : Prefix(path, n) \in s }

\* i in result.__dict__, for the node at path from
HasAttr(schema, from, elem) == Append(from, elem) \in schema

\* _find_endpoint(api, path), api being the node at path from
RECURSIVE _find_endpoint(_, _, _)
_find_endpoint(schema, from, path) ==
    IF path = <<>>
    THEN Return(from)
    ELSE IF HasAttr(schema, from, Head(path))
    THEN _find_endpoint(schema, Append(from, Head(path)), Tail(path))
    ELSE Raise("NoSuchEndpointOrAccessIsDenied")

\* self.point.<action>(...): the attribute lookup fails before any call
PointAction(schema, at, action) ==
    IF HasAttr(schema, at, action) THEN Return(action) ELSE Raise("AttributeError")

\* an operation that lets the AttributeError through
Guarded_Through(r) == r

\* try: ... except AttributeError as error: raise NoSuchEndpointOrAccessIsDenied
Guarded(r) ==
    IF r.raised = "AttributeError"
    THEN Raise("NoSuchEndpointOrAccessIsDenied")
    ELSE r

\* the paths given to the constructor and to get_subpoint
GivenPaths == {<<"cluster">>, <<"host">>, <<"cluster", "host">>, <<"host", "cluster">>}

InitEndpoint ==
    /\ NoSearch
    /\ point \in {[schema |-> s, at |-> <<>>] : s \in Schemas}
    /\ epc = [op |-> "", path |-> <<>>]
    /\ epraised = ""
    /\ descriptor = [idname |-> "cluster_id", path_args |-> <<>>, filters |-> {}]
    /\ request = [paging |-> <<>>, args |-> <<>>]
    /\ keywords = <<>>
    /\ NoWait
    /\ NoGateway
    /\ NoPaging
    /\ NoEntity
    /\ NoCollection
    /\ NoTask

\* EndPoint.__init__(api, idname, path)
EndPointInit(path) ==
    /\ epc' = [op |-> "__init__", path |-> path]
    /\ epraised' = _find_endpoint(point.schema, <<>>, path).raised
    /\ point' = IF _find_endpoint(point.schema, <<>>, path).raised = ""
                THEN [point EXCEPT !.at = _find_endpoint(point.schema, <<>>, path).value]
                ELSE point
    /\ UNCHANGED <<descriptor, request, keywords>>
    /\ UNCHANGED <<waitVars, gatewayVars, pagingVars, entityVars, collectionVars, taskVars, searchVars>>

\* EndPoint.list, read, delete and update, as far as the lookup of the action
EndPointCall(action) ==
    /\ point.at # <<>>
    /\ epc' = [op |-> action, path |-> point.at]
    /\ epraised' = Guarded(PointAction(point.schema, point.at, action)).raised
    /\ UNCHANGED <<point, descriptor, request, keywords>>
    /\ UNCHANGED <<waitVars, gatewayVars, pagingVars, entityVars, collectionVars, taskVars, searchVars>>

\* EndPoint.get_subpoint(*path)
EndPointGetSubpoint(path) ==
    /\ point.at # <<>>
    /\ epc' = [op |-> "get_subpoint", path |-> point.at \o path]
    /\ epraised' = _find_endpoint(point.schema, point.at, path).raised
    /\ UNCHANGED <<point, descriptor, request, keywords>>
    /\ UNCHANGED <<waitVars, gatewayVars, pagingVars, entityVars, collectionVars, taskVars, searchVars>>

NextEndpoint ==
    \/ \E path \in GivenPaths : EndPointInit(path)
    \/ \E action \in ActionNames : EndPointCall(action)
    \/ \E path \in {<<"host">>, <<"host", "list">>, <<"cluster">>} : EndPointGetSubpoint(path)

SpecEndpoint == InitEndpoint /\ [][NextEndpoint]_vars

\* the schema path the latest operation needed
Needed ==
    IF epc.op \in ActionNames THEN Append(epc.path, epc.op) ELSE epc.path

(***************************************************************************)
(* C14: an EndPoint operation given a path or an action the schema lacks   *)
(* raises NoSuchEndpointOrAccessIsDenied, and no operation raises          *)
(* AttributeError or anything else for it.                                 *)
(***************************************************************************)
C14_MissingIsDenied ==
    /\ epraised \in {"", "NoSuchEndpointOrAccessIsDenied"}
    /\ epc.op # "" =>
          (epraised = "NoSuchEndpointOrAccessIsDenied" <=> Needed \notin point.schema)

C14_Witness ==
    /\ epc = [op |-> "delete", path |-> <<"cluster">>]
    /\ epraised = "NoSuchEndpointOrAccessIsDenied"
    /\ point.at = <<"cluster">>
    /\ <<"cluster", "list">> \in point.schema
    /\ <<"cluster", "delete">> \notin point.schema

(***************************************************************************)
(* min_server_version, Task.action, Task.wait and Task.try_wait.  A        *)
(* version string is the sequence of its dot-separated numbers:            *)
(* "2020.08.27.00" is <<2020, 8, 27, 0>>, and the "0" the wrapper sets     *)
(* when the server tells no version is <<0>>.                              *)
(***************************************************************************)
MaxJobs == 2

Versions ==
    { <<0>>, <<2020, 5, 13, 0>>, <<2020, 8, 26, 23>>, <<2020, 8, 27>>,
      <<2020, 8, 27, 0>>, <<2020, 8, 27, 0, 1>>, <<2022, 10, 10, 10>> }

\* the decorated operations that are followed, with the decorator's argument
DecoratedOps ==
    { [name |-> "Task.action",            minimum |-> <<2020, 8, 27, 0>>],
      [name |-> "Cluster.service_delete", minimum |-> <<2020, 5, 13, 0>>],
      [name |-> "ADCMClient.me",          minimum |-> <<2022, 1, 31, 0>>] }

TaskActionMinimum == <<2020, 8, 27, 0>>

\* rpm.compare_versions on two versions: segment by segment, the first
\* difference decides, and of two versions one of which begins the other
\* the longer is the newer
RECURSIVE compare_versions(_, _)
compare_versions(a, b) ==
    IF a = <<>> /\ b = <<>> THEN 0
    ELSE IF a = <<>> THEN -1
    ELSE IF b = <<>> THEN 1
    ELSE IF Head(a) < Head(b) THEN -1
    ELSE IF Head(a) > Head(b) THEN 1
    ELSE compare_versions(Tail(a), Tail(b))

\* a decorator that lets every server through
min_server_version_Ungated(minimum, ver) == Return("ran")

\* the wrapper of min_server_version(minimum) on a server of version ver:
\* the exception, or the run of the wrapped operation
min_server_version(minimum, ver) ==
    IF compare_versions(ver, minimum) < 0
    THEN Raise("TooOldServerVersion")
    ELSE Return("ran")

\* the log files of a job, as the outcomes of their fetches: the content,
\* the error LOG_NOT_FOUND, or another ErrorMessage
LogFiles ==
    { <<"ok">>, <<"LOG_NOT_FOUND", "ok">>, <<"ErrorMessage", "ok">> }

\* the log files of n listed jobs
JobLogs(n) == [1..n -> LogFiles]

\* the files of the jobs in the order _log_jobs takes them
FlatFiles(files) ==
    Flatten([j \in 1..Len(files) |->
                [f \in 1..Len(files[j]) |->
                    [job |-> j, file |-> f, outcome |-> files[j][f]]]])

\* a fetch where every error ends the dump
FatalFetch_Any(outcome) == outcome # "ok"

\* the fetch raised and _log_jobs raises it on: any ErrorMessage but
\* LOG_NOT_FOUND, on which it goes on with the next file
FatalFetch(outcome) == outcome = "ErrorMessage"

\* the loops of _log_jobs over the files all: up to the first fetch that is
\* raised on
LogFetched(all) ==
    IF \A p \in 1..Len(all) : ~FatalFetch(all[p].outcome)
    THEN [raised |-> "", ran |-> IF all = <<>> THEN 0 ELSE all[Len(all)].job,
          fetched |-> all]
    ELSE [raised |-> "ErrorMessage",
          ran |-> all[CHOOSE p \in 1..Len(all) :
                        /\ FatalFetch(all[p].outcome)
                        /\ \A q \in 1..(p - 1) : ~FatalFetch(all[q].outcome)].job,
          fetched |-> SubSeq(all, 1,
                             CHOOSE p \in 1..Len(all) :
                                /\ FatalFetch(all[p].outcome)
                                /\ \A q \in 1..(p - 1) : ~FatalFetch(all[q].outcome))]

\* Task._log_jobs over the listed jobs: self.action() once per job, around
\* which only ErrorMessage is caught, then the fetch of each log file
LogJobs(files, ver) ==
    IF files = <<>> THEN [raised |-> "", ran |-> 0, fetched |-> <<>>]
    ELSE IF min_server_version(TaskActionMinimum, ver).raised # ""
    THEN [raised |-> min_server_version(TaskActionMinimum, ver).raised, ran |-> 0,
          fetched |-> <<>>]
    ELSE LogFetched(FlatFiles(files))

\* the timeout arguments of the try_wait calls that are followed
TaskTimeouts == {None, Some(PyInt(1)), Some(PyInt(2))}

InitTask ==
    /\ NoSearch
    /\ wpc = "idle"
    /\ attrname = "status"
    /\ values = {}
    /\ timeout = PyInt(0)
    /\ interval = PyInt(0)
    /\ i = PyInt(0)
    /\ fields \in TaskRecords
    /\ observed = <<>>
    /\ rereads = 0
    /\ sleeps = 0
    /\ result = ""
    /\ version \in Versions
    /\ jobs \in 0..MaxJobs
    /\ tpc = "idle"
    /\ tmethod = ""
    /\ tresult = ""
    /\ tcalls = 0
    /\ log_failed = TRUE
    /\ dump = [files |-> <<>>, fetched |-> <<>>]
    /\ NoGateway
    /\ NoPaging
    /\ NoEntity
    /\ NoCollection
    /\ NoEndpoint

\* a call of an operation decorated with min_server_version(minimum)
CallDecorated(called) ==
    /\ tpc = "idle"
    /\ tpc' = "done"
    /\ tmethod' = called.name
    /\ IF min_server_version(called.minimum, version).raised # ""
       THEN /\ tresult' = min_server_version(called.minimum, version).raised
            /\ tcalls' = tcalls
       ELSE /\ tresult' = "returned"
            /\ tcalls' = tcalls + 1
    /\ UNCHANGED <<version, jobs, log_failed, dump>>
    /\ UNCHANGED <<waitVars, gatewayVars, pagingVars, entityVars, collectionVars, endpointVars, searchVars>>

\* Task.try_wait(timeout) up to the loop of wait_for_attr: wait passes the
\* timeout on and no interval
TryWait(budget) ==
    /\ tpc = "idle"
    /\ tpc' = "waiting"
    /\ tmethod' = "try_wait"
    /\ log_failed' = TRUE
    /\ EnterLoop([attrname |-> "status", values |-> END_STATUSES],
                 [timeout |-> budget, interval |-> None])
    /\ UNCHANGED <<version, jobs, tresult, tcalls, dump>>

\* Task.wait(timeout, log_failed) up to the loop of wait_for_attr
TaskWait(budget, logging) ==
    /\ tpc = "idle"
    /\ tpc' = "waiting"
    /\ tmethod' = "wait"
    /\ log_failed' = logging
    /\ EnterLoop([attrname |-> "status", values |-> END_STATUSES],
                 [timeout |-> budget, interval |-> None])
    /\ UNCHANGED <<version, jobs, tresult, tcalls, dump>>

\* Job.wait(timeout) up to the loop of wait_for_attr
JobWait(budget) ==
    /\ tpc = "idle"
    /\ tpc' = "waiting"
    /\ tmethod' = "Job.wait"
    /\ EnterLoop([attrname |-> "status", values |-> END_STATUSES],
                 [timeout |-> budget, interval |-> None])
    /\ UNCHANGED <<version, jobs, tresult, tcalls, log_failed, dump>>

\* wait calls _log_jobs: on WaitTimeout and on the status failed, when
\* log_failed is set
Dumping ==
    /\ tmethod \in {"wait", "try_wait"}
    /\ log_failed
    /\ wpc = "raised" \/ result = "failed"

\* what the method ends with when nothing is raised on the way
Ending ==
    IF wpc = "raised" THEN "WaitTimeout"
    ELSE IF tmethod = "try_wait" /\ result = "failed" THEN "TaskFailed"
    ELSE result

\* the method once _log_jobs answered logged: what it returns or raises
Outcome(logged, otherwise, files) ==
    /\ tresult' = IF logged.raised # "" THEN logged.raised ELSE otherwise
    /\ tcalls' = tcalls + logged.ran
    /\ dump' = [files |-> files, fetched |-> logged.fetched]

\* the rest of Task.wait, Task.try_wait and Job.wait once wait_for_attr has
\* ended; files are the log files of the jobs job_list lists: all the
\* task's jobs on WaitTimeout, those with the status failed otherwise
WaitEnd(files) ==
    /\ tpc = "waiting"
    /\ wpc \in {"returned", "raised"}
    /\ tpc' = "done"
    /\ IF Dumping
       THEN /\ Len(files) <= jobs
            /\ wpc = "raised" => Len(files) = jobs
            /\ Outcome(LogJobs(files, version), Ending, files)
       ELSE /\ files = <<>>
            /\ tresult' = Ending
            /\ UNCHANGED <<tcalls, dump>>
    /\ UNCHANGED <<version, jobs, tmethod, log_failed>>
    /\ UNCHANGED <<waitVars, gatewayVars, pagingVars, entityVars, collectionVars, endpointVars, searchVars>>

\* the listed jobs with one log file each, every fetch of which answers
Readable(n) == [j \in 1..n |-> <<"ok">>]

NextTask ==
    \/ \E called \in DecoratedOps : CallDecorated(called)
    \/ \E budget \in TaskTimeouts : TryWait(budget)
    \/ Poll
    \/ LeaveLoop
    \/ \E n \in 0..MaxJobs : WaitEnd(Readable(n))

SpecTask == InitTask /\ [][NextTask]_vars

(***************************************************************************)
(* C15 as stated: try_wait ends in one of three ways: it returns "success" *)
(* when the terminal status seen is success, raises TaskFailed when it is  *)
(* failed, raises WaitTimeout when the budget ran out with no terminal     *)
(* status.                                                                 *)
(***************************************************************************)
C15_ThreeOutcomes ==
    (tmethod = "try_wait" /\ tpc = "done") =>
        \/ tresult = "success" /\ wpc = "returned" /\ fields.status = "success"
        \/ tresult = "TaskFailed" /\ wpc = "returned" /\ fields.status = "failed"
        \/ tresult = "WaitTimeout" /\ wpc = "raised" /\ fields.status \notin END_STATUSES

\* ver is older than minimum: lower at the first segment where they differ,
\* or a proper beginning of it
Older(ver, minimum) ==
    \/ \E k \in 1..Min(Len(ver), Len(minimum)) :
          /\ ver[k] < minimum[k]
          /\ \A j \in 1..(k - 1) : ver[j] = minimum[j]
    \/ /\ Len(ver) < Len(minimum)
       /\ \A j \in 1..Len(ver) : ver[j] = minimum[j]

(***************************************************************************)
(* C19: a call of an operation decorated with min_server_version(V) on a   *)
(* server older than V raises TooOldServerVersion and the wrapped          *)
(* operation does not run, so that it issues no gateway call; on a server  *)
(* of version V or newer the wrapped operation runs.                       *)
(***************************************************************************)
C19_GateBeforeBody ==
    \A called \in DecoratedOps :
        (tmethod = called.name /\ tpc = "done") =>
            IF Older(version, called.minimum)
            THEN tresult = "TooOldServerVersion" /\ tcalls = 0
            ELSE tresult = "returned" /\ tcalls = 1

C19_Witness ==
    /\ tmethod = "Task.action"
    /\ tpc = "done"
    /\ version = <<2020, 8, 26, 23>>
    /\ tresult = "TooOldServerVersion"
    /\ tcalls = 0

\* the servers the dump is followed on: one below and one at the minimum of
\* Task.action
DumpVersions == {<<0>>, <<2020, 8, 27, 0>>}

InitDump ==
    /\ InitTask
    /\ version \in DumpVersions

NextDump ==
    \/ \E budget \in TaskTimeouts : TryWait(budget)
    \/ \E budget \in TaskTimeouts, logging \in BOOLEAN : TaskWait(budget, logging)
    \/ \E budget \in TaskTimeouts : JobWait(budget)
    \/ Poll
    \/ LeaveLoop
    \/ \E n \in 0..MaxJobs : \E files \in JobLogs(n) : WaitEnd(files)

SpecDump == InitDump /\ [][NextDump]_vars

\* C25: in the dump of Task.wait a log file whose fetch raises LOG_NOT_FOUND
\* is passed over and the files and jobs after it are still fetched, the
\* method ending as it would without the dump (the final status, TaskFailed
\* of try_wait, or WaitTimeout); the first fetch raising another ErrorMessage
\* ends the dump and the method raises it.
C25_LogNotFoundSkipped ==
    (tpc = "done" /\ tmethod \in {"wait", "try_wait"} /\ dump.fetched # <<>>) =>
        IF \A p \in 1..Len(FlatFiles(dump.files)) :
                FlatFiles(dump.files)[p].outcome # "ErrorMessage"
        THEN /\ dump.fetched = FlatFiles(dump.files)
             /\ tresult = Ending
        ELSE /\ tresult = "ErrorMessage"
             /\ \E p \in 1..Len(FlatFiles(dump.files)) :
                    /\ FlatFiles(dump.files)[p].outcome = "ErrorMessage"
                    /\ \A q \in 1..(p - 1) :
                            FlatFiles(dump.files)[q].outcome # "ErrorMessage"
                    /\ dump.fetched = SubSeq(FlatFiles(dump.files), 1, p)

\* Task.wait returned failed after a dump over two jobs, the first log file
\* of the first job being not found
C25_Witness ==
    /\ tpc = "done"
    /\ tmethod = "wait"
    /\ tresult = "failed"
    /\ dump.files = << <<"LOG_NOT_FOUND", "ok">>, <<"ok">> >>
    /\ Len(dump.fetched) = 3
    /\ dump.fetched[3] = [job |-> 2, file |-> 1, outcome |-> "ok"]

\* C26: no sleep and no reread follows once the status in memory is one of
\* the final ones, and Task.wait and Job.wait on an instance whose status is
\* final already make no reread and return that status.
C26_NoPollingOnceTerminal ==
    [][/\ (wpc = "loop" /\ attrname = "status" /\ fields.status \in END_STATUSES)
            => (rereads' = rereads /\ sleeps' = sleeps)
       /\ (/\ tpc' = "done"
           /\ tmethod' \in {"wait", "Job.wait"}
           /\ rereads' = 0
           /\ fields'.status \in END_STATUSES)
            => (tresult' = fields'.status /\ sleeps' = 0)]_vars

(***************************************************************************)
(* EndPoint.list: the keyword arguments it calls the gateway with.         *)
(***************************************************************************)
\* EndPoint._get_filters_value that lets every keyword argument through
GetFiltersValue_All(allowed, fixed, args) == args

\* EndPoint._get_filters_value for the filters allowed and the path
\* arguments fixed
GetFiltersValue(allowed, fixed, args) ==
    Restrict(args, {v \in allowed : v \in DOMAIN args /\ v \notin DOMAIN fixed})

\* f(**a, **b, **c): a keyword given twice is a TypeError
KeywordCall(a, b, c) ==
    IF \/ DOMAIN a \cap DOMAIN b # {}
       \/ DOMAIN a \cap DOMAIN c # {}
       \/ DOMAIN b \cap DOMAIN c # {}
    THEN Raise("TypeError")
    ELSE Return(a @@ b @@ c)

\* self.point.list(**self.path_args, **paging, **filters)
ListKeywords(d, paging, args) ==
    KeywordCall(d.path_args, paging, GetFiltersValue(d.filters, d.path_args, args))

AnyCluster == 4
OtherCluster == 5
AnyJob == 2

\* the endpoints that are followed: Host at the top level, Host with the
\* cluster fixed in the path, Log below a job
Descriptors ==
    { [idname |-> "host_id", path_args |-> <<>>,
       filters |-> {"fqdn", "prototype_id", "provider_id", "cluster_id"}],
      [idname |-> "host_id", path_args |-> [cluster_id |-> AnyCluster],
       filters |-> {"fqdn", "prototype_id", "provider_id", "cluster_id"}],
      [idname |-> "log_id", path_args |-> [job_id |-> AnyJob], filters |-> {}] }

\* the **args of the list calls that are followed
ListKwargs ==
    { byFqdn @@ byCluster @@ byName :
        byFqdn \in Optional({[fqdn |-> x] : x \in Names}),
        byCluster \in Optional({[cluster_id |-> v] : v \in {AnyCluster, OtherCluster}}),
        byName \in Optional({[name |-> x] : x \in Names}) }

InitForward ==
    /\ NoSearch
    /\ point = [schema |-> {}, at |-> <<>>]
    /\ epc = [op |-> "", path |-> <<>>]
    /\ epraised = ""
    /\ descriptor \in Descriptors
    /\ request = [paging |-> <<>>, args |-> <<>>]
    /\ keywords = <<>>
    /\ NoWait
    /\ NoGateway
    /\ NoPaging
    /\ NoEntity
    /\ NoCollection
    /\ NoTask

\* EndPoint.list(paging, **args) up to the call of the gateway
EndPointListSends(paging, args) ==
    /\ keywords = <<>>
    /\ request' = [paging |-> paging, args |-> args]
    /\ keywords' = Some(ListKeywords(descriptor, paging, args))
    /\ UNCHANGED <<point, epc, epraised, descriptor>>
    /\ UNCHANGED <<waitVars, gatewayVars, pagingVars, entityVars, collectionVars, taskVars, searchVars>>

NextForward ==
    \E paging \in PagingArgs, args \in ListKwargs : EndPointListSends(paging, args)

SpecForward == InitForward /\ [][NextForward]_vars

\* the value the claim gives the keyword k of a list call
Forwarded(k) ==
    IF k \in DOMAIN descriptor.path_args THEN descriptor.path_args[k]
    ELSE IF k \in DOMAIN request.paging THEN request.paging[k]
    ELSE request.args[k]

(***************************************************************************)
(* C23: EndPoint.list calls the gateway with exactly the path arguments,   *)
(* the paging parameters and the keyword arguments whose names are allowed *)
(* filters and not path arguments; nothing else is sent, and a name that   *)
(* is both a path argument and a filter is sent once, with the path        *)
(* argument's value.                                                       *)
(***************************************************************************)
C23_OnlyPermittedFilters ==
    keywords # <<>> =>
        /\ keywords[1].raised = ""
        /\ DOMAIN keywords[1].value =
              DOMAIN descriptor.path_args \cup DOMAIN request.paging
                \cup {k \in DOMAIN request.args :
                        k \in descriptor.filters /\ k \notin DOMAIN descriptor.path_args}
        /\ \A k \in DOMAIN keywords[1].value : keywords[1].value[k] = Forwarded(k)

C23_Witness ==
    /\ keywords # <<>>
    /\ descriptor.path_args = [cluster_id |-> AnyCluster]
    /\ request.paging = [limit |-> 2, offset |-> 0]
    /\ request.args = [fqdn |-> "foo", cluster_id |-> OtherCluster, name |-> "bar"]
    /\ keywords[1] = Return([cluster_id |-> AnyCluster, limit |-> 2, offset |-> 0, fqdn |-> "foo"])

(***************************************************************************)
(* The key a target id is passed under: BaseAPIObject._parent_obj and the  *)
(* loop of BaseAPIListObject.__init__ choose it by the server's version.   *)
(***************************************************************************)
IdKeyTurnover == <<2022, 10, 10, 10>>

\* id_key of base.py:434-438 and base.py:469-473
IdKey(c, ver) ==
    IF compare_versions(ver, IdKeyTurnover) >= 0 THEN "id" ELSE IDNAME(c)

\* the ids a child holds for its parent: those of the first and the last
\* record, and one no record has
ParentIds == {1, MaxRecords, MaxRecords + 1}

InitParent ==
    /\ NoSearch
    /\ cls \in ClassNames
    /\ remote \in Collections(cls)
    /\ envelope \in BOOLEAN
    /\ honours = TRUE
    /\ calls = <<>>
    /\ criteria = <<>>
    /\ constructed = FALSE
    /\ data = None
    /\ attrs = ClassAttrs(cls)
    /\ op = ""
    /\ raised = ""
    /\ ops = 0
    /\ version \in Versions
    /\ jobs = 0
    /\ tpc = "idle"
    /\ tmethod = ""
    /\ tresult = ""
    /\ tcalls = 0
    /\ log_failed = TRUE
    /\ dump = [files |-> <<>>, fetched |-> <<>>]
    /\ NoCollection
    /\ NoWait
    /\ NoPaging
    /\ NoEndpoint

\* BaseAPIObject._parent_obj(classname), classname being cls and k the id
\* the child's _data holds under classname.IDNAME
ParentObj(k, miss) == Construct(IdKey(cls, version) :> k, miss)

\* BaseAPIListObject.__init__ on the connected server
BuildListOn(paging, args) == BuildList(paging, args, IdKey(cls, version))

NextParent ==
    \/ \E k \in ParentIds, miss \in MissingRead : ParentObj(k, miss)
    \/ \E paging \in {<<>>, [limit |-> MaxLimit, offset |-> 0]},
          args \in Optional({[name |-> x] : x \in Names}) : BuildListOn(paging, args)

SpecParent == InitParent /\ [][NextParent]_vars

\* the key the other side of the turnover passes the id under
OtherKey == IF IdKey(cls, version) = "id" THEN IDNAME(cls) ELSE "id"

\* the records the list call of the collection's constructor left after the
\* client-side filter
BuiltOver == EndPointSearch(cls, listArgs.paging, listArgs.args).value

(***************************************************************************)
(* C24: the id is passed under "id" on a server of version 2022.10.10.10   *)
(* or newer and under IDNAME on an older one, and both ways do the same:   *)
(* the entity is resolved by exactly one read of that id and the instance  *)
(* gets the state the other key would have given it; a collection reads    *)
(* each of its entries once and holds what the other key would have given. *)
(***************************************************************************)
C24_IdKeyEquivalence ==
    /\ op = "construct" =>
          /\ DOMAIN criteria =
                {IF Older(version, <<2022, 10, 10, 10>>) THEN IDNAME(cls) ELSE "id"}
          /\ \A key \in DOMAIN criteria :
                /\ ~built => calls = <<[op |-> "read", id |-> criteria[key]]>>
                /\ \A miss \in MissingRead :
                      EndPointSearchOne(cls, OtherKey :> criteria[key], miss)
                          = EndPointSearchOne(cls, key :> criteria[key], miss)
                /\ Holding(remote, criteria[key]) =>
                      /\ constructed
                      /\ raised = ""
                      /\ attrs.id = Some(criteria[key])
                      /\ data = PointRead(remote, criteria[key], "None").value
                                  \/ data[1] = (IDNAME(cls) :> criteria[key])
                                        @@ PointRead(remote, criteria[key], "None").value[1]
                /\ ~Holding(remote, criteria[key]) =>
                      (~constructed /\ raised \in {"ErrorMessage", "ObjectNotFound"})
    /\ (built /\ lraised = "") =>
          /\ entries = EntriesOf(cls, BuiltOver, OtherKey)
          /\ op = "" =>
             calls = <<ListCall(listArgs.paging, FiltersValue(cls, listArgs.args))>>
                        \o [k \in 1..Len(BuiltOver) |-> ReadCall(BuiltOver[k].id)]

C24_Witness ==
    /\ op = "construct"
    /\ cls = "Cluster"
    /\ version = <<2022, 10, 10, 10>>
    /\ criteria = [id |-> MaxRecords]
    /\ constructed
    /\ attrs.cluster_id = Some(MaxRecords)
    /\ calls = <<ReadCall(MaxRecords)>>
    /\ built
    /\ lraised = ""
    /\ Len(entries) = 3
(***************************************************************************)
(* util.search over records with a field that holds a list.                *)
(***************************************************************************)
MaxHay == 2

\* the lists a record holds and a filter names
JobLists == {<<>>, <<1>>}

\* records with a name, a list of jobs, or both
HayRecords ==
    [name : Names] \cup [jobs : JobLists] \cup [name : Names, jobs : JobLists]

Haystacks == UNION {[1..n -> HayRecords] : n \in 0..MaxHay}

InitSearch ==
    /\ haystack \in Haystacks
    /\ needle \in Optional(HayRecords)
    /\ hits = <<>>
    /\ spc = "idle"
    /\ NoWait
    /\ NoGateway
    /\ NoPaging
    /\ NoEntity
    /\ NoCollection
    /\ NoEndpoint
    /\ NoTask

\* list(search(data, **attrs))
UtilSearch ==
    /\ spc = "idle"
    /\ spc' = "done"
    /\ hits' = search(haystack, needle)
    /\ UNCHANGED <<haystack, needle>>
    /\ UNCHANGED <<waitVars, gatewayVars, pagingVars, entityVars, collectionVars, endpointVars, taskVars>>

NextSearch == UtilSearch

SpecSearch == InitSearch /\ [][NextSearch]_vars

\* the filters of the call on fields that hold a list in the record x
OnNested(x) == DOMAIN needle \cap DOMAIN x \cap NestedFields

\* C21: a filter on a field that holds a list in a record does not change
\* whether search gives the record: it is given exactly when search over the
\* other filters gives it, also when no other filter is left.
C21_NestedIgnored ==
    spc = "done" =>
        \A p \in 1..Len(haystack) :
            OnNested(haystack[p]) # {} =>
                ((\E q \in 1..Len(hits) : hits[q] = haystack[p])
                    <=> search(<<haystack[p]>>,
                               Restrict(needle, DOMAIN needle \ OnNested(haystack[p])))
                            # <<>>)
====
